---- MODULE Spec2Model ----
(***************************************************************************)
(* State-machine model of ezside.widgets.SevenSegmentDigit                 *)
(* (src/src/ezside/widgets/_seven_segment_digit.py): the stored digit, the *)
(* segment decoder, the decimal-point / power-scale operations, the        *)
(* effective value and the segment geometry computed by paintEvent.        *)
(*                                                                         *)
(* Python values are encoded as follows.                                   *)
(*   - An optional int (None or an int) is a sequence: <<>> or <<n>>.      *)
(*   - A str is the sequence of its characters.                            *)
(*   - A call's outcome is a record whose field exc names the exception    *)
(*     raised ("" when the call returned).                                 *)
(*   - A float is an exact rational num/den; the geometry of paintEvent is *)
(*     kept in integer multiples of 1/unit.                                *)
(***************************************************************************)
EXTENDS Integers, Sequences, FiniteSets

VARIABLES
  inner_value,   \* __inner_value__: <<>> (None) or <<d>>
  power_scale,   \* __power_scale__
  is_dot,        \* __is_dot__
  ret,           \* the last call on the digit and its outcome
  dot_only,      \* history: built as a numeral and scale moved by dotLeft/dotRight only
  trip,          \* history: dot operations since construction (see RoundTrip)
  row,           \* a row of digits: sequence of [is_dot, power_scale]
  widget,        \* the widget's size and its style fields
  painted        \* what the last paintEvent drew

vars ==
  <<inner_value, power_scale, is_dot, ret, dot_only, trip, row,
    widget, painted>>

(***************************************************************************)
(* Bounds of the model.                                                    *)
(***************************************************************************)
MaxScale == 5        \* power scales are kept within -MaxScale..MaxScale
MaxValue == 11       \* setInnerValue is tried with -MaxValue..MaxValue
RowLen == 3          \* digits in a row
MaxView == 5         \* widget width and height range over 1..MaxView
MaxSpacing == 1      \* segmentSpacing ranges over 0..MaxSpacing
MaxMargin == 1       \* each margin ranges over 0..MaxMargin
MaxAspectNum == 2    \* segmentAspect = n/d with n in 1..MaxAspectNum
MaxAspectDen == 4    \*                        d in 1..MaxAspectDen

(***************************************************************************)
(* Program constants.                                                      *)
(***************************************************************************)
DefaultScale == 4
DigitLimit == 9
FixedHeight == 32
FixedWidth == 16
DefaultSpacing == 1
DefaultMargin == 0

Abs(n) == IF n < 0 THEN -n ELSE n

RECURSIVE Pow10(_)
Pow10(n) == IF n <= 0 THEN 1 ELSE 10 * Pow10(n - 1)

(***************************************************************************)
(* Call outcomes.                                                          *)
(***************************************************************************)
NoSeg == [isStr |-> FALSE, s |-> <<>>]
NoInt == [isInt |-> FALSE, v |-> 0]

Outcome(op, seg, int, exc, bool, num, den) ==
  [op |-> op, seg |-> seg, int |-> int, exc |-> exc,
   bool |-> bool, num |-> num, den |-> den]

NoCall == Outcome("__init__", NoSeg, NoInt, "", FALSE, 0, 1)

(***************************************************************************)
(* _getInnerValue: None reads as 0; an int is returned as its absolute     *)
(* value unless its magnitude exceeds 9.  [val, exc]                       *)
(***************************************************************************)
_getInnerValue(inner) ==
  IF inner = <<>> THEN [val |-> 0, exc |-> ""]
  ELSE IF Abs(inner[1]) > DigitLimit THEN [val |-> 0, exc |-> "ValueError"]
  ELSE [val |-> Abs(inner[1]), exc |-> ""]

(***************************************************************************)
(* _setInnerValue: the new stored value and the exception, if any.         *)
(* arg is [isInt, v]; a non-int raises TypeError.                          *)
(***************************************************************************)
_setInnerValue_clamp(inner, arg) ==
  IF arg.isInt
    THEN IF Abs(arg.v) > DigitLimit
           THEN [inner |-> <<DigitLimit>>, exc |-> ""]
           ELSE [inner |-> <<Abs(arg.v)>>, exc |-> ""]
    ELSE [inner |-> inner, exc |-> "TypeError"]

_setInnerValue(inner, arg) ==
  IF arg.isInt
    THEN IF Abs(arg.v) > DigitLimit
           THEN [inner |-> inner, exc |-> "ValueError"]
           ELSE [inner |-> <<Abs(arg.v)>>, exc |-> ""]
    ELSE [inner |-> inner, exc |-> "TypeError"]

(***************************************************************************)
(* The lit-sets of the if-chain of _getSegState.                           *)
(***************************************************************************)
SegLit_slip ==
  [A |-> {0, 2, 3, 5, 6, 7, 8, 9},
   B |-> {0, 1, 2, 3, 4, 7, 8, 9},
   C |-> {0, 1, 3, 4, 5, 6, 7, 8, 9},
   D |-> {0, 2, 3, 5, 6, 8, 9},
   E |-> {0, 2, 6, 8},
   F |-> {0, 4, 5, 6, 8, 9},
   G |-> {0, 2, 3, 4, 5, 6, 8, 9}]

SegLit ==
  [A |-> {0, 2, 3, 5, 6, 7, 8, 9},
   B |-> {0, 1, 2, 3, 4, 7, 8, 9},
   C |-> {0, 1, 3, 4, 5, 6, 7, 8, 9},
   D |-> {0, 2, 3, 5, 6, 8, 9},
   E |-> {0, 2, 6, 8},
   F |-> {0, 4, 5, 6, 8, 9},
   G |-> {2, 3, 4, 5, 6, 8, 9}]

\* 'ABCDEFG' + 'abcdefg'
SegLetters ==
  <<"A", "B", "C", "D", "E", "F", "G", "a", "b", "c", "d", "e", "f", "g">>

\* Python's  t in s  for strings: t occurs in s as a substring.
IsSubstring(t, s) ==
  \E i \in 0..(Len(s) - Len(t)) : SubSeq(s, i + 1, i + Len(t)) = t

(***************************************************************************)
(* _getSegState: [bool, exc].  arg is [isStr, s].                          *)
(***************************************************************************)
_getSegState(inner, arg) ==
  IF ~arg.isStr THEN [bool |-> FALSE, exc |-> "TypeError"]
  ELSE IF ~IsSubstring(arg.s, SegLetters)
    THEN [bool |-> FALSE, exc |-> "ValueError"]
  ELSE LET value == _getInnerValue(inner) IN
    IF value.exc # "" THEN [bool |-> FALSE, exc |-> value.exc]
    ELSE IF arg.s = <<"A">> THEN [bool |-> value.val \in SegLit.A, exc |-> ""]
    ELSE IF arg.s = <<"B">> THEN [bool |-> value.val \in SegLit.B, exc |-> ""]
    ELSE IF arg.s = <<"C">> THEN [bool |-> value.val \in SegLit.C, exc |-> ""]
    ELSE IF arg.s = <<"D">> THEN [bool |-> value.val \in SegLit.D, exc |-> ""]
    ELSE IF arg.s = <<"E">> THEN [bool |-> value.val \in SegLit.E, exc |-> ""]
    ELSE IF arg.s = <<"F">> THEN [bool |-> value.val \in SegLit.F, exc |-> ""]
    ELSE IF arg.s = <<"G">> THEN [bool |-> value.val \in SegLit.G, exc |-> ""]
    ELSE [bool |-> FALSE, exc |-> "ValueError"]

(***************************************************************************)
(* dotLeft and dotRight as functions of (__is_dot__, __power_scale__).     *)
(***************************************************************************)
DotState(dot, power) == [is_dot |-> dot, power_scale |-> power]

dotLeftStep_shift(dot, power) ==
  IF dot THEN DotState(FALSE, -1)
  ELSE IF power = 0 THEN DotState(TRUE, power - 1)
  ELSE DotState(dot, power - 1)

dotLeftStep(dot, power) ==
  IF dot THEN DotState(FALSE, -1)
  ELSE IF power = 0 THEN DotState(TRUE, power)
  ELSE DotState(dot, power - 1)

dotRightStep_mirror(dot, power) ==
  IF dot THEN DotState(FALSE, 1)
  ELSE IF power = 0 THEN DotState(TRUE, power)
  ELSE DotState(dot, power + 1)

dotRightStep_early(dot, power) ==
  IF dot THEN DotState(FALSE, 0)
  ELSE IF power = 0 \/ power = -1 THEN DotState(TRUE, power)
  ELSE DotState(dot, power + 1)

dotRightStep(dot, power) ==
  IF dot THEN DotState(FALSE, 0)
  ELSE IF power = 0 THEN DotState(TRUE, power)
  ELSE DotState(dot, power + 1)

(***************************************************************************)
(* __float__: float(_getInnerValue() * 10 ** _getPowerScale()).  A         *)
(* negative exponent makes 10 ** p the float 1 / 10^(-p).  [num, den, exc] *)
(***************************************************************************)
FloatValue_linear(inner, power) ==
  LET value == _getInnerValue(inner) IN
    IF value.exc # "" THEN [num |-> 0, den |-> 1, exc |-> value.exc]
    ELSE [num |-> value.val * 10 * power, den |-> 1, exc |-> ""]

FloatValue(inner, power) ==
  LET value == _getInnerValue(inner) IN
    IF value.exc # "" THEN [num |-> 0, den |-> 1, exc |-> value.exc]
    ELSE IF power >= 0
      THEN [num |-> value.val * Pow10(power), den |-> 1, exc |-> ""]
      ELSE [num |-> value.val, den |-> Pow10(-power), exc |-> ""]

(***************************************************************************)
(* paintEvent.  The widget is [view, aspect, spacing, margins] with        *)
(* view = <<width, height>>, aspect = <<n, d>> for segmentAspect n/d and   *)
(* margins = <<left, top, right, bottom>>.  Lengths of the segment branch  *)
(* are integers counting 1/unit, unit = 2 * (d + 2 * n), which makes every *)
(* division of the computation exact.                                      *)
(***************************************************************************)
Segs == {"A", "B", "C", "D", "E", "F", "G"}

Rect(x, y, w, h) == [x |-> x, y |-> y, w |-> w, h |-> h]

LayoutUnit(aspect) == 2 * (aspect[2] + 2 * aspect[1])

\* w = (W - 4 * spacing) / (1 + 2 * aspect);  h = aspect * w
SegmentSize_gaps(W, spacing, aspect) ==
  [w |-> 2 * aspect[2] * (W - 2 * spacing),
   h |-> 2 * aspect[1] * (W - 2 * spacing)]

SegmentSize(W, spacing, aspect) ==
  [w |-> 2 * aspect[2] * (W - 4 * spacing),
   h |-> 2 * aspect[1] * (W - 4 * spacing)]

\* ATop, BFTop, CETop, DTop, GTop and bottom from w, h and the spacing
SegmentTops_nogap(w, h, s) ==
  LET ATop == s
      BFTop == 2 * s + h
      CETop == BFTop + 2 * s + h
      DTop == CETop + w + s
  IN [A |-> ATop, BF |-> BFTop, CE |-> CETop, D |-> DTop,
      G |-> (ATop \div 2) + (DTop \div 2), bottom |-> DTop + h + s]

SegmentTops(w, h, s) ==
  LET ATop == s
      BFTop == 2 * s + h
      CETop == BFTop + w + 2 * s + h
      DTop == CETop + w + s
  IN [A |-> ATop, BF |-> BFTop, CE |-> CETop, D |-> DTop,
      G |-> (ATop \div 2) + (DTop \div 2), bottom |-> DTop + h + s]

\* FLeft, ELeft, GLeft, ALeft, DLeft, BLeft, CLeft
SegmentLefts(w, h, s) ==
  LET GLeft == 2 * s + h
      BLeft == GLeft + w + s
  IN [F |-> s, E |-> s, G |-> GLeft, A |-> GLeft, D |-> GLeft,
      B |-> BLeft, C |-> BLeft]

\* the segments dictionary of paintEvent
SegmentRects(wd) ==
  LET unit == LayoutUnit(wd.aspect)
      W == wd.view[1] - wd.margins[1] - wd.margins[3]
      H == wd.view[2] - wd.margins[2] - wd.margins[4]
      size == SegmentSize(W, wd.spacing, wd.aspect)
      w == size.w
      h == size.h
      s == unit * wd.spacing
      top == SegmentTops(w, h, s)
      left == SegmentLefts(w, h, s)
      dv == (unit * H - top.bottom) \div 2
      dx == unit * wd.margins[1]
      dy == unit * wd.margins[2] + dv
  IN [seg \in Segs |->
        CASE seg = "A" -> Rect(left.A + dx, top.A + dy, w, h)
          [] seg = "B" -> Rect(left.B + dx, top.BF + dy, h, w)
          [] seg = "C" -> Rect(left.C + dx, top.CE + dy, h, w)
          [] seg = "D" -> Rect(left.D + dx, top.D + dy, w, h)
          [] seg = "E" -> Rect(left.E + dx, top.CE + dy, h, w)
          [] seg = "F" -> Rect(left.F + dx, top.BF + dy, h, w)
          [] seg = "G" -> Rect(left.G + dx, top.G + dy, w, h)]

\* the dot branch: radius width / 9, centre (center().x(), bottom() - 1.5 r),
\* counted in 1/18
DotEllipse(wd) ==
  [r |-> 2 * wd.view[1],
   x |-> 18 * ((wd.view[1] - 1) \div 2),
   y |-> 18 * (wd.view[2] - 1) - 3 * wd.view[1]]

Paint(wd, dot, inner) ==
  LET state == [seg \in Segs |->
                  _getSegState(inner, [isStr |-> TRUE, s |-> <<seg>>])]
      W == wd.view[1] - wd.margins[1] - wd.margins[3]
      H == wd.view[2] - wd.margins[2] - wd.margins[4]
  IN IF dot
       THEN [mode |-> "dot", exc |-> "", W |-> W, H |-> H, unit |-> 18,
             ellipse |-> DotEllipse(wd)]
     ELSE IF \E seg \in Segs : state[seg].exc # ""
       THEN [mode |-> "segments", exc |-> "ValueError", W |-> W, H |-> H,
             unit |-> LayoutUnit(wd.aspect)]
     ELSE [mode |-> "segments", exc |-> "", W |-> W, H |-> H,
           unit |-> LayoutUnit(wd.aspect),
           rects |-> SegmentRects(wd),
           brush |-> [seg \in Segs |->
                        IF state[seg].bool THEN "high" ELSE "low"],
           pen |-> [seg \in Segs |->
                      IF state[seg].bool THEN "empty" ELSE "line"]]

\* registerFields and the fixed size set by __init__
DefaultWidget ==
  [view |-> <<FixedWidth, FixedHeight>>,
   aspect |-> <<1, 4>>,
   spacing |-> DefaultSpacing,
   margins |-> <<DefaultMargin, DefaultMargin, DefaultMargin, DefaultMargin>>]

(***************************************************************************)
(* Inputs.                                                                 *)
(***************************************************************************)
Chars == {SegLetters[i] : i \in 1..Len(SegLetters)} \cup {"H"}

\* the empty string, every single character, and some longer strings, of
\* which "AB" and "Ga" occur in SegLetters and "BA" does not
Tokens ==
  {<<>>} \cup {<<c>> : c \in Chars}
         \cup {<<"A", "B">>, <<"G", "a">>, <<"B", "A">>}

SegArgs == {[isStr |-> TRUE, s |-> t] : t \in Tokens} \cup {NoSeg}

IntArgs == {[isInt |-> TRUE, v |-> v] : v \in -MaxValue..MaxValue} \cup {NoInt}

Scales == -MaxScale..MaxScale

\* dotLeft four times and then dotRight four times
RoundTrip == <<"L", "L", "L", "L", "R", "R", "R", "R">>

Off == <<"off">>

Follow(t, op) ==
  IF t # Off /\ Len(t) < Len(RoundTrip) /\ RoundTrip[Len(t) + 1] = op
    THEN Append(t, op)
    ELSE Off

(***************************************************************************)
(* __init__: scale from the arguments (default 4), dot from the keyword    *)
(* (default False); no value is stored.                                    *)
(***************************************************************************)
DigitInit ==
  /\ inner_value = <<>>
  /\ power_scale \in Scales
  /\ is_dot \in BOOLEAN
  /\ ret = NoCall
  /\ dot_only = ~is_dot
  /\ trip = IF ~is_dot /\ power_scale = DefaultScale THEN <<>> ELSE Off

NoRow == <<>>
NoPaint == [mode |-> "none"]

Init ==
  /\ DigitInit
  /\ row = NoRow
  /\ widget = DefaultWidget
  /\ painted = NoPaint

(***************************************************************************)
(* Operations of one digit.                                                *)
(***************************************************************************)
setInnerValue(arg) ==
  LET r == _setInnerValue(inner_value, arg) IN
    /\ inner_value' = r.inner
    /\ ret' = Outcome("setInnerValue", NoSeg, arg, r.exc, FALSE, 0, 1)
    /\ UNCHANGED <<power_scale, is_dot, dot_only, trip, row,
                   widget, painted>>

\* _setInnerValue((_getInnerValue() + 1) % 10)
_increment ==
  LET value == _getInnerValue(inner_value)
      r == _setInnerValue(inner_value,
                          [isInt |-> TRUE, v |-> (value.val + 1) % 10])
  IN
    /\ inner_value' = IF value.exc # "" THEN inner_value ELSE r.inner
    /\ ret' = Outcome("_increment", NoSeg, NoInt,
                      IF value.exc # "" THEN value.exc ELSE r.exc, FALSE, 0, 1)
    /\ UNCHANGED <<power_scale, is_dot, dot_only, trip, row,
                   widget, painted>>

\* _setInnerValue((_getInnerValue() - 1) % 10)
_decrement ==
  LET value == _getInnerValue(inner_value)
      r == _setInnerValue(inner_value,
                          [isInt |-> TRUE, v |-> (value.val - 1) % 10])
  IN
    /\ inner_value' = IF value.exc # "" THEN inner_value ELSE r.inner
    /\ ret' = Outcome("_decrement", NoSeg, NoInt,
                      IF value.exc # "" THEN value.exc ELSE r.exc, FALSE, 0, 1)
    /\ UNCHANGED <<power_scale, is_dot, dot_only, trip, row,
                   widget, painted>>

getSegState(arg) ==
  LET r == _getSegState(inner_value, arg) IN
    /\ ret' = Outcome("_getSegState", arg, NoInt, r.exc, r.bool, 0, 1)
    /\ UNCHANGED <<inner_value, power_scale, is_dot, dot_only, trip, row,
                   widget, painted>>

dotLeft ==
  LET n == dotLeftStep(is_dot, power_scale) IN
    /\ n.power_scale \in Scales
    /\ is_dot' = n.is_dot
    /\ power_scale' = n.power_scale
    /\ ret' = Outcome("dotLeft", NoSeg, NoInt, "", FALSE, 0, 1)
    /\ trip' = Follow(trip, "L")
    /\ UNCHANGED <<inner_value, dot_only, row,
                   widget, painted>>

dotRight ==
  LET n == dotRightStep(is_dot, power_scale) IN
    /\ n.power_scale \in Scales
    /\ is_dot' = n.is_dot
    /\ power_scale' = n.power_scale
    /\ ret' = Outcome("dotRight", NoSeg, NoInt, "", FALSE, 0, 1)
    /\ trip' = Follow(trip, "R")
    /\ UNCHANGED <<inner_value, dot_only, row,
                   widget, painted>>

_setPowerScale(scale) ==
  /\ power_scale' = scale
  /\ ret' = Outcome("_setPowerScale", NoSeg, NoInt, "", FALSE, 0, 1)
  /\ dot_only' = FALSE
  /\ trip' = Off
  /\ UNCHANGED <<inner_value, is_dot, row,
                   widget, painted>>

_incPowerScale ==
  /\ power_scale + 1 \in Scales
  /\ power_scale' = power_scale + 1
  /\ ret' = Outcome("_incPowerScale", NoSeg, NoInt, "", FALSE, 0, 1)
  /\ dot_only' = FALSE
  /\ trip' = Off
  /\ UNCHANGED <<inner_value, is_dot, row,
                   widget, painted>>

_decPowerScale ==
  /\ power_scale - 1 \in Scales
  /\ power_scale' = power_scale - 1
  /\ ret' = Outcome("_decPowerScale", NoSeg, NoInt, "", FALSE, 0, 1)
  /\ dot_only' = FALSE
  /\ trip' = Off
  /\ UNCHANGED <<inner_value, is_dot, row,
                   widget, painted>>

getScale ==
  /\ ret' = Outcome("getScale", NoSeg, NoInt, "", FALSE, power_scale, 1)
  /\ UNCHANGED <<inner_value, power_scale, is_dot, dot_only, trip, row,
                   widget, painted>>

__float__ ==
  LET r == FloatValue(inner_value, power_scale) IN
    /\ ret' = Outcome("__float__", NoSeg, NoInt, r.exc, FALSE, r.num, r.den)
    /\ UNCHANGED <<inner_value, power_scale, is_dot, dot_only, trip, row,
                   widget, painted>>

paintEvent ==
  /\ painted' = Paint(widget, is_dot, inner_value)
  /\ ret' = Outcome("paintEvent", NoSeg, NoInt, painted'.exc, FALSE, 0, 1)
  /\ UNCHANGED <<inner_value, power_scale, is_dot, dot_only, trip, row,
                 widget>>

Next ==
  \/ \E arg \in IntArgs : setInnerValue(arg)
  \/ _increment
  \/ _decrement
  \/ \E arg \in SegArgs : getSegState(arg)
  \/ dotLeft
  \/ dotRight
  \/ \E scale \in Scales : _setPowerScale(scale)
  \/ _incPowerScale
  \/ _decPowerScale
  \/ getScale
  \/ __float__

Spec == Init /\ [][Next]_vars

(***************************************************************************)
(* A row of digits, most significant first, all numerals at consecutive    *)
(* scales; a step applies dotLeft, or dotRight, to every digit of the row. *)
(***************************************************************************)
RowInit ==
  /\ inner_value = <<>>
  /\ power_scale = DefaultScale
  /\ is_dot = FALSE
  /\ ret = NoCall
  /\ dot_only = TRUE
  /\ trip = <<>>
  /\ widget = DefaultWidget
  /\ painted = NoPaint
  /\ \E first \in Scales :
       /\ first - (RowLen - 1) \in Scales
       /\ row = [i \in 1..RowLen |-> DotState(FALSE, first - (i - 1))]

RowDotLeft ==
  LET n == [i \in 1..RowLen |-> dotLeftStep(row[i].is_dot, row[i].power_scale)]
  IN
    /\ \A i \in 1..RowLen : n[i].power_scale \in Scales
    /\ row' = n
    /\ UNCHANGED <<inner_value, power_scale, is_dot, ret, dot_only, trip,
                   widget, painted>>

RowDotRight ==
  LET n == [i \in 1..RowLen |-> dotRightStep(row[i].is_dot, row[i].power_scale)]
  IN
    /\ \A i \in 1..RowLen : n[i].power_scale \in Scales
    /\ row' = n
    /\ UNCHANGED <<inner_value, power_scale, is_dot, ret, dot_only, trip,
                   widget, painted>>

RowNext == RowDotLeft \/ RowDotRight

SpecRow == RowInit /\ [][RowNext]_vars

(***************************************************************************)
(* paintEvent over widget sizes and style fields.                          *)
(***************************************************************************)
Views == ((1..MaxView) \X (1..MaxView)) \cup {<<FixedWidth, FixedHeight>>}

Aspects == (1..MaxAspectNum) \X (1..MaxAspectDen)

Margins ==
  (0..MaxMargin) \X (0..MaxMargin) \X (0..MaxMargin) \X (0..MaxMargin)

Widgets ==
  [view : Views, aspect : Aspects, spacing : 0..MaxSpacing, margins : Margins]

LayoutInit ==
  /\ inner_value = <<>>
  /\ power_scale = DefaultScale
  /\ is_dot \in BOOLEAN
  /\ ret = NoCall
  /\ dot_only = ~is_dot
  /\ trip = IF is_dot THEN Off ELSE <<>>
  /\ row = NoRow
  /\ widget \in Widgets
  /\ painted = NoPaint

LayoutNext == paintEvent

SpecLayout == LayoutInit /\ [][LayoutNext]_vars

(***************************************************************************)
(* Properties of one digit.                                                *)
(***************************************************************************)
StoredDigit == IF inner_value = <<>> THEN 0 ELSE inner_value[1]

\* The standard seven-segment truth table.
StandardTable ==
  [seg \in {"A", "B", "C", "D", "E", "F", "G"} |->
     CASE seg = "A" -> {0, 2, 3, 5, 6, 7, 8, 9}
       [] seg = "B" -> {0, 1, 2, 3, 4, 7, 8, 9}
       [] seg = "C" -> {0, 1, 3, 4, 5, 6, 7, 8, 9}
       [] seg = "D" -> {0, 2, 3, 5, 6, 8, 9}
       [] seg = "E" -> {0, 2, 6, 8}
       [] seg = "F" -> {0, 4, 5, 6, 8, 9}
       [] seg = "G" -> {2, 3, 4, 5, 6, 8, 9}]

UpperOf ==
  [c \in {"a", "b", "c", "d", "e", "f", "g"} |->
     CASE c = "a" -> "A" [] c = "b" -> "B" [] c = "c" -> "C" [] c = "d" -> "D"
       [] c = "e" -> "E" [] c = "f" -> "F" [] c = "g" -> "G"]

IsUpperSeg(arg) == arg.isStr /\ Len(arg.s) = 1 /\ arg.s[1] \in DOMAIN StandardTable
IsLowerSeg(arg) == arg.isStr /\ Len(arg.s) = 1 /\ arg.s[1] \in DOMAIN UpperOf

\* C1: for a stored digit 0..9 and a segment A..G, _getSegState returns true
\* exactly when the digit is in the segment's lit-set of the standard table;
\* with no value set the result is the one for 0.
C1_DecoderMatchesTable ==
  (ret.op = "_getSegState" /\ IsUpperSeg(ret.seg)) =>
    /\ ret.exc = ""
    /\ ret.bool = (StoredDigit \in StandardTable[ret.seg.s[1]])

C1_Witness ==
  /\ ret.op = "_getSegState"
  /\ ret.seg = [isStr |-> TRUE, s |-> <<"G">>]
  /\ inner_value = <<>>
  /\ ret.exc = ""
  /\ ret.bool = FALSE

\* C2: dotLeft and dotRight each take the three-case transition: from DOT to
\* NUMERAL with scale -1 (dotLeft) or 0 (dotRight); from NUMERAL at scale 0 to
\* DOT with the scale unchanged; otherwise NUMERAL with the scale decremented
\* (dotLeft) or incremented (dotRight).
C2_DotTransitions ==
  [][/\ ret'.op = "dotLeft" =>
          IF is_dot THEN ~is_dot' /\ power_scale' = -1
          ELSE IF power_scale = 0 THEN is_dot' /\ power_scale' = power_scale
          ELSE ~is_dot' /\ power_scale' = power_scale - 1
     /\ ret'.op = "dotRight" =>
          IF is_dot THEN ~is_dot' /\ power_scale' = 0
          ELSE IF power_scale = 0 THEN is_dot' /\ power_scale' = power_scale
          ELSE ~is_dot' /\ power_scale' = power_scale + 1]_vars

\* Scale 0, dotLeft (DOT), dotLeft again: NUMERAL at scale -1.
C2_Witness ==
  /\ ret.op = "dotLeft"
  /\ ~is_dot
  /\ power_scale = -1
  /\ dot_only

\* C3 as stated: from isDot = false, powerScale = 4, dotLeft four times and
\* then dotRight four times ends in isDot = false, powerScale = 4.
C3_RoundTrip ==
  trip = RoundTrip => (~is_dot /\ power_scale = DefaultScale)

\* C3 (amended): from isDot = false, powerScale = 4, dotLeft four times and
\* then dotRight four times ends in isDot = false, powerScale = 0.
C3_TripEndsAtZero ==
  trip = RoundTrip => (~is_dot /\ power_scale = 0)

C3_Witness ==
  /\ trip = RoundTrip
  /\ ret.op = "dotRight"
  /\ dot_only

InRange(inner) == inner = <<>> \/ inner[1] \in 0..9

\* C5: the stored digit is always absent or in 0..9; setInnerValue(v) stores
\* |v| when |v| <= 9 and otherwise raises and leaves the digit unchanged;
\* _increment and _decrement wrap modulo 10.
C5_StoredDigit ==
  [][/\ InRange(inner_value) /\ InRange(inner_value')
     /\ (ret'.op = "setInnerValue" /\ ret'.int.isInt) =>
          IF Abs(ret'.int.v) <= 9
            THEN inner_value' = <<Abs(ret'.int.v)>> /\ ret'.exc = ""
            ELSE inner_value' = inner_value /\ ret'.exc = "ValueError"
     /\ ret'.op = "_increment" =>
          inner_value' = <<IF StoredDigit = 9 THEN 0 ELSE StoredDigit + 1>>
     /\ ret'.op = "_decrement" =>
          inner_value' = <<IF StoredDigit = 0 THEN 9 ELSE StoredDigit - 1>>]_vars

\* setInnerValue(-10) on a stored 7 raised and left the 7.
C5_Witness ==
  /\ ret.op = "setInnerValue"
  /\ ret.int = [isInt |-> TRUE, v |-> -10]
  /\ ret.exc = "ValueError"
  /\ inner_value = <<7>>

\* C6: segment identifiers are case-insensitive: a lowercase letter a..g is
\* accepted and gives the same boolean as its uppercase letter; only tokens
\* outside the seven letters raise the invalid-segment error.
C6_CaseInsensitive ==
  ret.op = "_getSegState" =>
    /\ IsLowerSeg(ret.seg) =>
         /\ ret.exc = ""
         /\ ret.bool = (StoredDigit \in StandardTable[UpperOf[ret.seg.s[1]]])
    /\ (ret.seg.isStr /\ ~IsLowerSeg(ret.seg) /\ ~IsUpperSeg(ret.seg)) =>
         ret.exc = "ValueError"

\* C7 as stated: in NUMERAL mode __float__ is the stored digit times 10 to
\* the power scale; in DOT mode it is not a number.
C7_FloatUndefinedInDot ==
  ret.op = "__float__" =>
    IF is_dot THEN ret.exc # ""
    ELSE /\ ret.exc = ""
         /\ ret.den > 0
         /\ ret.num * Pow10(-power_scale)
              = StoredDigit * Pow10(power_scale) * ret.den

\* C7 (amended): in NUMERAL and in DOT mode alike, __float__ returns the
\* stored digit times 10 to the power scale.
C7_FloatIsDigitTimesPower ==
  ret.op = "__float__" =>
    /\ ret.exc = ""
    /\ ret.den > 0
    /\ ret.num * Pow10(-power_scale)
         = StoredDigit * Pow10(power_scale) * ret.den

\* Digit 7 at scale 2 gives 700.
C7_Witness ==
  /\ ret.op = "__float__"
  /\ ~is_dot
  /\ inner_value = <<7>>
  /\ power_scale = 2
  /\ ret.num = 700
  /\ ret.den = 1

\* C10: for a digit built in NUMERAL mode whose scale is moved by dotLeft and
\* dotRight only, isDot implies powerScale = 0.
C10_DotAtZero ==
  dot_only => (is_dot => power_scale = 0)

C10_Witness ==
  /\ dot_only
  /\ is_dot
  /\ power_scale = 0
  /\ ret.op = "dotRight"

(***************************************************************************)
(* Properties of a row of digits.                                          *)
(***************************************************************************)
DotsInRow == {i \in DOMAIN row : row[i].is_dot}

\* C4: in a row of digits that start as numerals at distinct consecutive
\* scales and are all moved by the same operation at each step, no reachable
\* state has two digits in DOT mode.
C4_AtMostOneDot ==
  Cardinality(DotsInRow) <= 1

(***************************************************************************)
(* Properties of the segment geometry.                                     *)
(***************************************************************************)
Min(a, b) == IF a < b THEN a ELSE b
Max(a, b) == IF a < b THEN b ELSE a

\* the two rectangles share a region of positive area
Overlap(a, b) ==
  /\ Max(a.x, b.x) < Min(a.x + a.w, b.x + b.w)
  /\ Max(a.y, b.y) < Min(a.y + a.h, b.y + b.h)

NonNegativeSizes ==
  \A seg \in Segs : painted.rects[seg].w >= 0 /\ painted.rects[seg].h >= 0

NoOverlaps ==
  \A a, b \in Segs :
    a # b => ~Overlap(painted.rects[a], painted.rects[b])

Drawn == painted.mode = "segments" /\ painted.exc = ""

====
